---- MODULE Spec2Model ----
(***************************************************************************)
(* A model of backend/main.py of recipe-web-app: the session store, the   *)
(* tag codec, the three cache regions, the invalidation helper and the    *)
(* request handlers in front of the Dropbox store.                        *)
(*                                                                         *)
(* Time is datetime.utcnow() in whole seconds.  A Python dict is a         *)
(* function whose DOMAIN is the set of keys; the OrderedDict photo_cache   *)
(* is a sequence of entries, oldest first.  An optional value (Python's    *)
(* None or a value) is a sequence of length 0 or 1.  A text is a sequence  *)
(* of atoms: the literal "Tags:", a newline, a space, a comma, or one      *)
(* other character.                                                        *)
(***************************************************************************)
EXTENDS Integers, Sequences, FiniteSets, TLC

VARIABLES
    now,              \* datetime.utcnow()
    ticks,            \* how often the clock has been advanced (bounded)
    nops,             \* how many operations have run (bounded)
    DISABLE_AUTH,     \* main.py:30, fixed by the environment at start
    sessions,         \* main.py:39   token -> expiry
    issued,           \* tokens secrets.token_hex has already produced
    recipes_cache,    \* main.py:113  [value, expires_at]
    recipe_md_cache,  \* main.py:114  name -> [markdown, expires_at]
    photo_cache,      \* main.py:115  OrderedDict, oldest first
    md_store,         \* remote store: name -> text of /recipes/<name>.md
    folders,          \* remote store: name -> (filename -> [rev, content])
    rev,              \* remote store: the revision counter
    last,             \* the response of the last operation that finished
    stored,           \* history: what was stored in which region, and when
    touched,          \* history: content keys in order of their last touch
    dropped,          \* history: content keys a lookup removed as expired
    served,           \* history: path -> tag of the last content response
    thr               \* SpecRace: each worker thread's position and locals

vars == <<now, ticks, nops, DISABLE_AUTH, sessions, issued, recipes_cache,
          recipe_md_cache, photo_cache, md_store, folders, rev, last,
          stored, touched, dropped, served, thr>>

----------------------------------------------------------------------------
(* Generic helpers *)

None == <<>>
Some(x) == <<x>>

DictDel(d, k) == [x \in DOMAIN d \ {k} |-> d[x]]
DictPut(d, k, v) == [x \in DOMAIN d \cup {k} |-> IF x = k THEN v ELSE d[x]]
EmptyDict == [x \in {} |-> 0]

Max(S) == CHOOSE x \in S : \A y \in S : y <= x

RECURSIVE SeqToSet(_)
SeqToSet(s) == IF s = <<>> THEN {} ELSE {Head(s)} \cup SeqToSet(Tail(s))

IsPrefix(p, s) == Len(p) <= Len(s) /\ SubSeq(s, 1, Len(p)) = p

----------------------------------------------------------------------------
(* Bounds of the model *)

\* SpecSession, SpecCache, SpecLRU: how often the clock is advanced
MaxTicks == 3
\* SpecLRU: the cache already holds this many entries, and this many
\* further get and set operations run
PrefillLen == 127
MaxLruOps == 3
\* how many requests run in Spec, in SpecAuth, in SpecPhoto, in SpecTag and
\* in SpecDelete, each from a
\* state in which earlier requests may have filled the cache regions
MaxOps == 1
MaxAuthOps == 1
MaxPhotoOps == 2
MaxTagOps == 1
MaxDeleteOps == 1
\* SpecCodec: the longest text, in atoms, and how often it is rewritten
MaxTextLen == 4
MaxCodecOps == 1
\* SpecInval: how many invalidations run
MaxInvalOps == 1
\* how often the clock is advanced between requests
MaxWaits == 1
\* how many revisions the store hands out
MaxRev == 3

----------------------------------------------------------------------------
(* Session store, main.py:32-60 *)

SESSION_DURATION_DAYS == 30
SessionDuration == SESSION_DURATION_DAYS * 24 * 60 * 60

Tokens == {"t1", "t2"}
NoCookie == ""

create_session(s, token, t) == DictPut(s, token, t + SessionDuration)

\* a variant with a sliding expiry: a successful check renews the session
verify_session_sliding(s, token, t) ==
    IF token \notin DOMAIN s THEN [sessions |-> s, ret |-> FALSE]
    ELSE IF s[token] < t THEN [sessions |-> DictDel(s, token), ret |-> FALSE]
    ELSE [sessions |-> DictPut(s, token, t + SessionDuration), ret |-> TRUE]

verify_session(s, token, t) ==
    IF token \notin DOMAIN s THEN [sessions |-> s, ret |-> FALSE]
    ELSE IF s[token] < t THEN [sessions |-> DictDel(s, token), ret |-> FALSE]
    ELSE [sessions |-> s, ret |-> TRUE]

\* a variant that lets every request with a cookie through
require_auth_any_cookie(disabled, s, token, t) ==
    [sessions |-> s, ok |-> disabled \/ token # NoCookie]

\* require_auth: ok = FALSE is the HTTPException(401)
require_auth(disabled, s, token, t) ==
    IF disabled THEN [sessions |-> s, ok |-> TRUE]
    ELSE IF token = NoCookie THEN [sessions |-> s, ok |-> FALSE]
    ELSE LET v == verify_session(s, token, t)
         IN  [sessions |-> v.sessions, ok |-> v.ret]

----------------------------------------------------------------------------
(* Paths, main.py:72-82.  A path is the sequence of its pieces, so that    *)
(* str.startswith is a prefix test on it.                                   *)

RECIPES_ROOT == <<"/recipes">>

Names == {"A", "AB"}
Filenames == {"p.jpg"}

\* The characters of a name ("AB" begins with "A").
Chars(n) == CASE n = "A" -> <<"A">>
              [] n = "AB" -> <<"A", "B">>
              [] OTHER -> <<n>>

recipe_folder(name) == RECIPES_ROOT \o <<"/">> \o Chars(name)
photo_path(recipe, filename) == recipe_folder(recipe) \o <<"/">> \o Chars(filename)

----------------------------------------------------------------------------
(* Tag codec, main.py:84-102 *)

TAGS == "Tags:"
NL == "\n"
SP == " "
COMMA == ","

IsSpace(a) == a \in {SP, NL}

\* str.lower() on one atom
LowerAtom(a) == CASE a = "B" -> "b"
                  [] a = TAGS -> "tags:"
                  [] OTHER -> a

Lower(w) == [i \in 1..Len(w) |-> LowerAtom(w[i])]

\* str.replace(",", " ")
ReplaceCommas(s) == [i \in 1..Len(s) |-> IF s[i] = COMMA THEN SP ELSE s[i]]

\* str.split(): the maximal runs of non-whitespace; cur is the run being read
RECURSIVE Split(_, _)
Split(s, cur) ==
    IF s = <<>> THEN (IF cur = <<>> THEN <<>> ELSE <<cur>>)
    ELSE IF IsSpace(Head(s))
         THEN (IF cur = <<>> THEN <<>> ELSE <<cur>>) \o Split(Tail(s), <<>>)
         ELSE Split(Tail(s), Append(cur, Head(s)))

\* list(dict.fromkeys(tags))
RECURSIVE Dedupe(_, _)
Dedupe(s, seen) ==
    IF s = <<>> THEN <<>>
    ELSE IF Head(s) \in seen THEN Dedupe(Tail(s), seen)
         ELSE <<Head(s)>> \o Dedupe(Tail(s), seen \cup {Head(s)})

normalize_tags(tag_string) ==
    IF tag_string = <<>> THEN <<>>
    ELSE LET words == Split(ReplaceCommas(tag_string), <<>>)
         IN  Dedupe([i \in 1..Len(words) |-> Lower(words[i])], {})

\* ' '.join(tags)
RECURSIVE Join(_)
Join(tags) ==
    IF tags = <<>> THEN <<>>
    ELSE IF Len(tags) = 1 THEN tags[1]
         ELSE tags[1] \o <<SP>> \o Join(Tail(tags))

\* "^" under re.MULTILINE
LineStart(md, i) == i = 1 \/ md[i - 1] = NL

\* the first index >= k that holds a newline, or Len + 1
EndOfLine(md, k) ==
    LET S == {e \in k..Len(md) : md[e] = NL}
    IN  IF S = {} THEN Len(md) + 1 ELSE CHOOSE e \in S : \A f \in S : e <= f

\* the first index >= k that holds no whitespace, or Len + 1
FirstNonSpace(md, k) ==
    LET S == {e \in k..Len(md) : ~IsSpace(md[e])}
    IN  IF S = {} THEN Len(md) + 1 ELSE CHOOSE e \in S : \A f \in S : e <= f

\* the first index >= k that holds no newline, or Len + 1
EndOfNewlines(md, k) ==
    LET S == {e \in k..Len(md) : md[e] # NL}
    IN  IF S = {} THEN Len(md) + 1 ELSE CHOOSE e \in S : \A f \in S : e <= f

\* r"^Tags:\s*(.+)$" tried at index i: \s* is greedy and gives characters
\* back until (.+) finds at least one character that is no newline.
TagsMatch(md, i) ==
    LET k == FirstNonSpace(md, i + 1)
    IN  IF ~(md[i] = TAGS /\ LineStart(md, i)) THEN [ok |-> FALSE, group |-> <<>>]
        ELSE IF k <= Len(md)
             THEN [ok |-> TRUE, group |-> SubSeq(md, k, EndOfLine(md, k) - 1)]
             ELSE IF \E p \in (i + 1)..Len(md) : md[p] = SP
                  THEN [ok |-> TRUE, group |-> <<SP>>]
                  ELSE [ok |-> FALSE, group |-> <<>>]

extract_tags(markdown) ==
    LET cands == {i \in 1..Len(markdown) : TagsMatch(markdown, i).ok}
    IN  IF cands = {} THEN <<>>
        ELSE normalize_tags(
                 TagsMatch(markdown, CHOOSE i \in cands : \A j \in cands : i <= j).group)

\* re.sub(r"^Tags:.*\n+", "", markdown, flags=re.MULTILINE), scanning at i
RECURSIVE StripTagLines(_, _)
StripTagLines(md, i) ==
    IF i > Len(md) THEN <<>>
    ELSE IF md[i] = TAGS /\ LineStart(md, i) /\ EndOfLine(md, i) <= Len(md)
         THEN StripTagLines(md, EndOfNewlines(md, EndOfLine(md, i)))
         ELSE <<md[i]>> \o StripTagLines(md, i + 1)

\* str.lstrip()
lstrip(s) == SubSeq(s, FirstNonSpace(s, 1), Len(s))

replace_tags(markdown, new_tags) ==
    LET stripped == lstrip(StripTagLines(markdown, 1))
    IN  IF new_tags = <<>> THEN stripped
        ELSE <<TAGS, SP>> \o Join(new_tags) \o <<NL, NL>> \o stripped

----------------------------------------------------------------------------
(* Cache layer, main.py:108-190 *)

RECIPES_CACHE_TTL == 20
RECIPE_MD_CACHE_TTL == 60
PHOTO_CACHE_TTL == 15 * 60
PHOTO_CACHE_MAX_ITEMS == 128
DATETIME_MIN == -1

\* a slip: an entry still fresh at the instant of its expiry
cache_fresh_inclusive(expires_at, t) == t <= expires_at

cache_fresh(expires_at, t) == t < expires_at

\* ---- catalog region
get_cached_recipes(rc, t) ==
    IF rc.value # None /\ cache_fresh(rc.expires_at, t) THEN rc.value ELSE None

set_cached_recipes(data, t) ==
    [value |-> Some(data), expires_at |-> t + RECIPES_CACHE_TTL]

clear_recipes_cache == [value |-> None, expires_at |-> DATETIME_MIN]

\* ---- document-text region; the result is the new dict and the return value
get_cached_recipe_md(c, name, t) ==
    IF name \notin DOMAIN c THEN [cache |-> c, ret |-> None]
    ELSE IF cache_fresh(c[name].expires_at, t)
         THEN [cache |-> c, ret |-> Some(c[name].markdown)]
         ELSE [cache |-> DictDel(c, name), ret |-> None]

set_cached_recipe_md(c, name, markdown, t) ==
    DictPut(c, name, [markdown |-> markdown, expires_at |-> t + RECIPE_MD_CACHE_TTL])

\* name is None (clear everything) or Some(name)
clear_recipe_md_cache(c, name) ==
    IF name = None THEN EmptyDict ELSE DictDel(c, name[1])

\* ---- content region: OrderedDict primitives
PhotoKeys(pc) == [i \in 1..Len(pc) |-> pc[i].path]
HasKey(pc, path) == \E i \in 1..Len(pc) : pc[i].path = path
KeyIndex(pc, path) == CHOOSE i \in 1..Len(pc) : pc[i].path = path
Entry(pc, path) == pc[KeyIndex(pc, path)]

\* OrderedDict.pop(path, None)
OdPop(pc, path) == SelectSeq(pc, LAMBDA e : e.path # path)
\* OrderedDict.move_to_end(path), the key being present
OdMoveToEnd(pc, path) == Append(OdPop(pc, path), Entry(pc, path))
\* photo_cache[path] = entry: in place when the key is present
OdAssign(pc, path, entry) ==
    IF HasKey(pc, path)
    THEN [i \in 1..Len(pc) |-> IF pc[i].path = path THEN entry ELSE pc[i]]
    ELSE Append(pc, entry)

\* while len(photo_cache) > PHOTO_CACHE_MAX_ITEMS: popitem(last=False)
RECURSIVE EvictOldest(_)
EvictOldest(pc) ==
    IF Len(pc) > PHOTO_CACHE_MAX_ITEMS THEN EvictOldest(Tail(pc)) ELSE pc

\* a slip: a hit that does not move the key to the most recent position
get_cached_photo_no_touch(pc, path, t) ==
    IF ~HasKey(pc, path) THEN [cache |-> pc, ret |-> None]
    ELSE IF ~cache_fresh(Entry(pc, path).expires_at, t)
         THEN [cache |-> OdPop(pc, path), ret |-> None]
         ELSE [cache |-> pc, ret |-> Some(Entry(pc, path))]

get_cached_photo(pc, path, t) ==
    IF ~HasKey(pc, path) THEN [cache |-> pc, ret |-> None]
    ELSE IF ~cache_fresh(Entry(pc, path).expires_at, t)
         THEN [cache |-> OdPop(pc, path), ret |-> None]
         ELSE [cache |-> OdMoveToEnd(pc, path), ret |-> Some(Entry(pc, path))]

set_cached_photo(pc, path, content, media_type, etag, t) ==
    LET entry == [path |-> path, content |-> content, media_type |-> media_type,
                  etag |-> etag, expires_at |-> t + PHOTO_CACHE_TTL]
    IN  EvictOldest(OdMoveToEnd(OdAssign(pc, path, entry), path))

\* a variant whose prefix lacks the closing "/"
clear_photo_cache_loose(pc, recipe) ==
    IF recipe = None THEN <<>>
    ELSE SelectSeq(pc, LAMBDA e : ~IsPrefix(recipe_folder(recipe[1]), e.path))

\* recipe is None (clear everything) or Some(recipe)
clear_photo_cache(pc, recipe) ==
    IF recipe = None THEN <<>>
    ELSE SelectSeq(pc, LAMBDA e :
             ~IsPrefix(recipe_folder(recipe[1]) \o <<"/">>, e.path))

\* a variant that leaves the catalog region alone
invalidate_keeping_catalog(rc, pc, mc, name) ==
    [recipes_cache |-> rc,
     photo_cache |-> clear_photo_cache(pc, name),
     recipe_md_cache |-> clear_recipe_md_cache(mc, name)]

\* the three regions after invalidate_for_recipe_change(name)
invalidate_for_recipe_change(rc, pc, mc, name) ==
    [recipes_cache |-> clear_recipes_cache,
     photo_cache |-> clear_photo_cache(pc, name),
     recipe_md_cache |-> clear_recipe_md_cache(mc, name)]

----------------------------------------------------------------------------
(* The state after the module is loaded, main.py:30-39 and 113-115, over   *)
(* an empty remote store.                                                   *)

NoStored == [catalog |-> None, md |-> EmptyDict, photo |-> EmptyDict]

InitBase ==
    /\ now = 0
    /\ ticks = 0
    /\ nops = 0
    /\ DISABLE_AUTH = FALSE
    /\ sessions = EmptyDict
    /\ issued = {}
    /\ recipes_cache = [value |-> None, expires_at |-> DATETIME_MIN]
    /\ recipe_md_cache = EmptyDict
    /\ photo_cache = <<>>
    /\ md_store = EmptyDict
    /\ folders = EmptyDict
    /\ rev = 0
    /\ last = [op |-> "init"]
    /\ stored = NoStored
    /\ touched = <<>>
    /\ dropped = {}
    /\ served = EmptyDict
    /\ thr = EmptyDict

(* The clock.  Only the order of now and the expiry times matters to the   *)
(* code, so the clock moves to the next second or to one second before,    *)
(* at, or one second after an expiry time held in the state.               *)
Expiries ==
    {sessions[k] : k \in DOMAIN sessions}
    \cup {recipes_cache.expires_at}
    \cup {recipe_md_cache[n].expires_at : n \in DOMAIN recipe_md_cache}
    \cup {photo_cache[i].expires_at : i \in 1..Len(photo_cache)}

Instants == {now + 1} \cup {e + d : e \in Expiries, d \in {-1, 0, 1}}

TickTo(bound, instants) ==
    /\ ticks < bound
    /\ \E t \in instants : t > now /\ now' = t
    /\ ticks' = ticks + 1
    /\ last' = [op |-> "tick"]
    /\ UNCHANGED <<nops, DISABLE_AUTH, sessions, issued, recipes_cache,
                   recipe_md_cache, photo_cache, md_store, folders, rev,
                   stored, touched, dropped, served, thr>>

Tick == TickTo(MaxTicks, Instants)

----------------------------------------------------------------------------
(* SpecSession: the session store on its own, main.py:41-53 and 196-212 *)

\* login: wrong credentials raise 401, right ones create a session
LoginWith(tokens) ==
    /\ \E ok \in BOOLEAN :
         IF ok
         THEN \E token \in tokens \ issued :
                /\ sessions' = create_session(sessions, token, now)
                /\ issued' = issued \cup {token}
                /\ last' = [op |-> "login", status |-> 200, token |-> token,
                            at |-> now]
         ELSE /\ last' = [op |-> "login", status |-> 401, token |-> NoCookie,
                          at |-> now]
              /\ UNCHANGED <<sessions, issued>>
    /\ UNCHANGED <<now, ticks, nops, DISABLE_AUTH, recipes_cache,
                   recipe_md_cache, photo_cache, md_store, folders, rev,
                   stored, touched, dropped, served, thr>>

Login == LoginWith(Tokens)

\* one call of verify_session; had is the entry the store held before it
VerifySession ==
    /\ \E token \in Tokens :
         LET v == verify_session(sessions, token, now)
         IN  /\ sessions' = v.sessions
             /\ last' = [op |-> "verify_session", token |-> token,
                         ret |-> v.ret, at |-> now,
                         had |-> IF token \in DOMAIN sessions
                                 THEN Some(sessions[token]) ELSE None,
                         before |-> sessions]
    /\ UNCHANGED <<now, ticks, nops, DISABLE_AUTH, issued, recipes_cache,
                   recipe_md_cache, photo_cache, md_store, folders, rev,
                   stored, touched, dropped, served, thr>>

NextSession == Login \/ VerifySession \/ Tick

SpecSession == InitBase /\ [][NextSession]_vars

\* C8: verify_session returns true exactly when the token is in the store
\* and its expiry is strictly later than the time of the call; a token
\* checked at the instant of its expiry is rejected.
C8_ValidIffStrictlyFuture ==
    last.op = "verify_session" =>
        (last.ret <=> (last.had # None /\ last.had[1] > last.at))

\* what one call of verify_session did to the store
C18_Frame ==
    last.op = "verify_session" =>
        /\ last.ret => (sessions = last.before /\ last.at <= last.had[1])
        /\ (~last.ret /\ last.had # None) =>
               (last.had[1] < last.at /\ sessions = DictDel(last.before, last.token))
        /\ last.had = None => sessions = last.before

\* no step changes the expiry of a session, and a new session expires 30
\* days after the step that created it
C18_NoSliding ==
    /\ \A k \in DOMAIN sessions \cap DOMAIN sessions' : sessions'[k] = sessions[k]
    /\ \A k \in DOMAIN sessions' \ DOMAIN sessions :
           sessions'[k] = now + 30 * 24 * 60 * 60

\* C18: verify_session leaves the store as it was for a valid token and
\* removes exactly the entry of an expired one; the expiry of a session is
\* fixed at creation time + 30 days and a token is accepted only up to it,
\* so never later than 30 days after its creation.
C18_FixedExpiry == []C18_Frame /\ [][C18_NoSliding]_vars

\* a token was accepted some time after its creation beside a second session
C18_Witness ==
    /\ last.op = "verify_session" /\ last.ret /\ last.at > 0
    /\ Cardinality(DOMAIN sessions) = 2
    /\ \E k \in DOMAIN sessions : sessions[k] # last.had[1]

----------------------------------------------------------------------------
(* SpecCache: the cache layer on its own, main.py:117-185.  The regions    *)
(* share no state, so each run works on one region at a time: an           *)
(* operation on a region is taken while the other two are untouched.       *)
(* stored remembers, per key, the value last stored and when, and forgets  *)
(* it on a clear, an overwrite or an eviction (not on expiry).             *)

\* f"\"{rev}\"", main.py:404
Etag(r) == <<"\"", r, "\"">>
\* mimetypes.guess_type(filename)[0] or "application/octet-stream", main.py:409
GuessType(filename) ==
    IF filename = "p.jpg" THEN "image/jpeg" ELSE "application/octet-stream"

CacheCatalogs == {<<>>, <<[name |-> "A", tags |-> <<>>, cover |-> None]>>}
CacheTexts == {<<>>, <<"x">>}
CachePaths == {photo_path(n, f) : n \in Names, f \in Filenames}
CacheContents == {"c1", "c2"}

CatalogIdle == recipes_cache.value = None /\ stored.catalog = None
TextIdle == recipe_md_cache = EmptyDict /\ stored.md = EmptyDict
ContentIdle == photo_cache = <<>> /\ stored.photo = EmptyDict

CacheFrame == UNCHANGED <<now, ticks, nops, DISABLE_AUTH, sessions, issued,
                          md_store, folders, rev, touched, dropped, served, thr>>

SetCachedRecipes ==
    /\ TextIdle /\ ContentIdle
    /\ \E data \in CacheCatalogs :
         /\ recipes_cache' = set_cached_recipes(data, now)
         /\ stored' = [stored EXCEPT !.catalog = Some([value |-> data, at |-> now])]
         /\ last' = [op |-> "set_cached_recipes", at |-> now]
    /\ UNCHANGED <<recipe_md_cache, photo_cache>>
    /\ CacheFrame

GetCachedRecipes ==
    /\ TextIdle /\ ContentIdle
    /\ last' = [op |-> "get_cached_recipes", at |-> now,
                ret |-> get_cached_recipes(recipes_cache, now)]
    /\ UNCHANGED <<recipes_cache, recipe_md_cache, photo_cache, stored>>
    /\ CacheFrame

ClearRecipesCache ==
    /\ TextIdle /\ ContentIdle
    /\ recipes_cache' = clear_recipes_cache
    /\ stored' = [stored EXCEPT !.catalog = None]
    /\ last' = [op |-> "clear_recipes_cache", at |-> now]
    /\ UNCHANGED <<recipe_md_cache, photo_cache>>
    /\ CacheFrame

SetCachedRecipeMd ==
    /\ CatalogIdle /\ ContentIdle
    /\ \E name \in Names, markdown \in CacheTexts :
         /\ recipe_md_cache' = set_cached_recipe_md(recipe_md_cache, name, markdown, now)
         /\ stored' = [stored EXCEPT !.md =
                          DictPut(@, name, [value |-> markdown, at |-> now])]
         /\ last' = [op |-> "set_cached_recipe_md", key |-> name, at |-> now]
    /\ UNCHANGED <<recipes_cache, photo_cache>>
    /\ CacheFrame

GetCachedRecipeMd ==
    /\ CatalogIdle /\ ContentIdle
    /\ \E name \in Names :
         LET g == get_cached_recipe_md(recipe_md_cache, name, now)
         IN  /\ recipe_md_cache' = g.cache
             /\ last' = [op |-> "get_cached_recipe_md", key |-> name,
                         at |-> now, ret |-> g.ret]
    /\ UNCHANGED <<recipes_cache, photo_cache, stored>>
    /\ CacheFrame

ClearRecipeMdCache ==
    /\ CatalogIdle /\ ContentIdle
    /\ \E name \in {None} \cup {Some(n) : n \in Names} :
         /\ recipe_md_cache' = clear_recipe_md_cache(recipe_md_cache, name)
         /\ stored' = [stored EXCEPT !.md =
                          IF name = None THEN EmptyDict ELSE DictDel(@, name[1])]
         /\ last' = [op |-> "clear_recipe_md_cache", key |-> name, at |-> now]
    /\ UNCHANGED <<recipes_cache, photo_cache>>
    /\ CacheFrame

SetCachedPhoto ==
    /\ CatalogIdle /\ TextIdle
    /\ \E path \in CachePaths, content \in CacheContents :
         LET pc == set_cached_photo(photo_cache, path, content,
                                    GuessType("p.jpg"), Etag(content), now)
             kept == {k \in DOMAIN stored.photo : HasKey(pc, k)}
         IN  /\ photo_cache' = pc
             /\ stored' = [stored EXCEPT !.photo =
                    DictPut([k \in kept |-> @[k]], path,
                            [value |-> [content |-> content,
                                        media_type |-> GuessType("p.jpg"),
                                        etag |-> Etag(content)],
                             at |-> now])]
             /\ last' = [op |-> "set_cached_photo", key |-> path, at |-> now]
    /\ UNCHANGED <<recipes_cache, recipe_md_cache>>
    /\ CacheFrame

GetCachedPhoto ==
    /\ CatalogIdle /\ TextIdle
    /\ \E path \in CachePaths :
         LET g == get_cached_photo(photo_cache, path, now)
         IN  /\ photo_cache' = g.cache
             /\ last' = [op |-> "get_cached_photo", key |-> path,
                         at |-> now, ret |-> g.ret]
    /\ UNCHANGED <<recipes_cache, recipe_md_cache, stored>>
    /\ CacheFrame

ClearPhotoCache ==
    /\ CatalogIdle /\ TextIdle
    /\ \E recipe \in {None} \cup {Some(n) : n \in Names} :
         LET pc == clear_photo_cache(photo_cache, recipe)
         IN  /\ photo_cache' = pc
             /\ stored' = [stored EXCEPT !.photo =
                    [k \in {x \in DOMAIN @ : HasKey(pc, x)} |-> @[k]]]
             /\ last' = [op |-> "clear_photo_cache", key |-> recipe, at |-> now]
    /\ UNCHANGED <<recipes_cache, recipe_md_cache>>
    /\ CacheFrame

NextCache ==
    \/ SetCachedRecipes \/ GetCachedRecipes \/ ClearRecipesCache
    \/ SetCachedRecipeMd \/ GetCachedRecipeMd \/ ClearRecipeMdCache
    \/ SetCachedPhoto \/ GetCachedPhoto \/ ClearPhotoCache
    \/ Tick

SpecCache == InitBase /\ [][NextCache]_vars

\* What a read at time t must return for a value g.value stored at g.at
\* under a time to live of ttl seconds.
C5_Due(g, ttl, t, ret) ==
    IF t < g.at + ttl THEN ret = Some(g.value) ELSE ret = None

C5_PhotoValue(ret) ==
    IF ret = None THEN None
    ELSE Some([content |-> ret[1].content, media_type |-> ret[1].media_type,
               etag |-> ret[1].etag])

\* C5: in each region (catalog 20 s, document text 60 s, photo content
\* 15 min) a value stored at time t and not cleared, overwritten or evicted
\* since is returned unchanged by every read before t + TTL and reported
\* absent by every read at or after t + TTL: by the read the state allows
\* now, and by the read that has just been made.
C5_CacheFreshness ==
    /\ stored.catalog # None =>
          C5_Due(stored.catalog[1], 20, now, get_cached_recipes(recipes_cache, now))
    /\ \A n \in DOMAIN stored.md :
          C5_Due(stored.md[n], 60, now,
                 get_cached_recipe_md(recipe_md_cache, n, now).ret)
    /\ \A p \in DOMAIN stored.photo :
          C5_Due(stored.photo[p], 15 * 60, now,
                 C5_PhotoValue(get_cached_photo(photo_cache, p, now).ret))
    /\ (last.op = "get_cached_recipes" /\ stored.catalog # None) =>
          C5_Due(stored.catalog[1], 20, last.at, last.ret)
    /\ (last.op = "get_cached_recipe_md" /\ last.key \in DOMAIN stored.md) =>
          C5_Due(stored.md[last.key], 60, last.at, last.ret)
    /\ (last.op = "get_cached_photo" /\ last.key \in DOMAIN stored.photo) =>
          C5_Due(stored.photo[last.key], 15 * 60, last.at, C5_PhotoValue(last.ret))

\* Reads have returned a stored value one second before its expiry and
\* reported a stored value absent at the instant of its expiry.
C5_Witness ==
    \/ /\ last.op = "get_cached_photo" /\ last.key \in DOMAIN stored.photo
       /\ last.at = stored.photo[last.key].at + 15 * 60 /\ last.ret = None
    \/ /\ last.op = "get_cached_recipe_md" /\ last.key \in DOMAIN stored.md
       /\ last.at = stored.md[last.key].at + 59 /\ last.ret # None

----------------------------------------------------------------------------
(* SpecLRU: the bound and the order of the content region, main.py:158-177. *)
(* The run starts after PrefillLen photos have been cached one after the    *)
(* other at time 0, and then gets and sets a few keys, old and new.         *)
(* touched lists the keys by their last touch (a set or a hit), the most    *)
(* recent last; dropped holds the keys a lookup removed as expired.         *)

\* the path of the photo with number i of a recipe
NumPath(recipe, i) == recipe_folder(recipe) \o <<"/", i>>
LruPath(i) == NumPath("A", i)
\* looked up: an old key and a new one; inserted: two new keys
LruGetKeys == {1, PrefillLen + 1}
LruSetKeys == {PrefillLen + 1, PrefillLen + 2}

\* photo_cache after set_cached_photo of the keys 1..n, in this order, at
\* time 0 (n <= PHOTO_CACHE_MAX_ITEMS: nothing was evicted)
Prefill(recipe, n) ==
    [i \in 1..n |-> [path |-> NumPath(recipe, i), content |-> "c1",
                     media_type |-> "image/jpeg", etag |-> Etag(1),
                     expires_at |-> 0 + PHOTO_CACHE_TTL]]

InitLRU ==
    /\ now = 0 /\ ticks = 0 /\ nops = 0
    /\ DISABLE_AUTH = FALSE
    /\ sessions = EmptyDict /\ issued = {}
    /\ recipes_cache = [value |-> None, expires_at |-> DATETIME_MIN]
    /\ recipe_md_cache = EmptyDict
    /\ photo_cache = Prefill("A", PrefillLen)
    /\ md_store = EmptyDict /\ folders = EmptyDict /\ rev = 0
    /\ last = [op |-> "init"]
    /\ stored = NoStored
    /\ touched = [i \in 1..PrefillLen |-> LruPath(i)]
    /\ dropped = {}
    /\ served = EmptyDict
    /\ thr = EmptyDict

Without(seq, k) == SelectSeq(seq, LAMBDA x : x # k)
LastN(seq, n) == IF Len(seq) <= n THEN seq ELSE SubSeq(seq, Len(seq) - n + 1, Len(seq))

LruFrame == UNCHANGED <<now, ticks, DISABLE_AUTH, sessions, issued, recipes_cache,
                        recipe_md_cache, md_store, folders, rev, stored, served, thr>>

LruSet ==
    /\ nops < MaxLruOps
    /\ \E k \in LruSetKeys :
         /\ photo_cache' = set_cached_photo(photo_cache, LruPath(k), "c1",
                                            "image/jpeg", Etag(1), now)
         /\ touched' = Append(Without(touched, LruPath(k)), LruPath(k))
         /\ last' = [op |-> "set_cached_photo", key |-> LruPath(k), at |-> now]
    /\ nops' = nops + 1
    /\ UNCHANGED dropped
    /\ LruFrame

LruGet ==
    /\ nops < MaxLruOps
    /\ \E k \in LruGetKeys :
         LET g == get_cached_photo(photo_cache, LruPath(k), now)
         IN  /\ photo_cache' = g.cache
             /\ touched' = IF g.ret # None
                           THEN Append(Without(touched, LruPath(k)), LruPath(k))
                           ELSE touched
             /\ dropped' = IF g.ret = None /\ HasKey(photo_cache, LruPath(k))
                           THEN dropped \cup {LruPath(k)} ELSE dropped
             /\ last' = [op |-> "get_cached_photo", key |-> LruPath(k),
                         at |-> now, ret |-> g.ret]
    /\ nops' = nops + 1
    /\ LruFrame

NextLRU == LruSet \/ LruGet \/ Tick

SpecLRU == InitLRU /\ [][NextLRU]_vars

\* s keeps the order of t: s is t with some elements left out
IsSubSeq(s, t) ==
    LET present == {s[i] : i \in 1..Len(s)}
    IN  SelectSeq(t, LAMBDA x : x \in present) = s

\* C6 as claimed: once more than 128 distinct keys have been inserted, the
\* keys present after any get or set are exactly the 128 most recently
\* touched ones.
C6_ExactlyMostRecent ==
    /\ Len(photo_cache) <= 128
    /\ Len(touched) > 128 => PhotoKeys(photo_cache) = LastN(touched, 128)

\* C6 as amended: the region never holds more than 128 entries and keeps
\* them in the order of their last touch; as long as no lookup has removed
\* an expired entry, the keys present are exactly the (up to) 128 most
\* recently touched ones, the least recently touched evicted first.
C6_LruBound ==
    /\ Len(photo_cache) <= 128
    /\ IsSubSeq(PhotoKeys(photo_cache), touched)
    /\ dropped = {} => PhotoKeys(photo_cache) = LastN(touched, 128)

\* More than 128 distinct keys were inserted; key 1, hit before the two new
\* keys came, has survived, and the key after it was evicted in its place.
C6_Witness ==
    /\ Len(touched) > 128
    /\ dropped = {}
    /\ Len(photo_cache) = 128
    /\ HasKey(photo_cache, LruPath(1))
    /\ ~HasKey(photo_cache, LruPath(2))

----------------------------------------------------------------------------
(* SpecRace: the content region under concurrent requests.  FastAPI runs   *)
(* the handlers declared with def (get_photo, the delete handlers) on      *)
(* worker threads, and main.py takes no lock: the interpreter may switch   *)
(* threads between any two operations on photo_cache.  Each action below   *)
(* is one such operation, main.py:158-185, as get_photo (main.py:392-412)  *)
(* and invalidate_for_recipe_change (main.py:189) reach it.                *)
(* The run starts with the region empty or filled at time 0 with the       *)
(* photos of another recipe, just after that or at the instant these       *)
(* entries expire.                                                          *)

Threads == {1, 2}
RacePaths == {NumPath("A", 1), NumPath("AB", 1)}

IdleThread == [pc |-> "idle", path |-> <<>>, entry |-> None, recipe |-> "",
               snap |-> <<>>, keys |-> <<>>]

InitRace ==
    /\ now \in {1, PHOTO_CACHE_TTL}
    /\ ticks = 0 /\ nops = 0
    /\ DISABLE_AUTH = FALSE
    /\ sessions = EmptyDict /\ issued = {}
    /\ recipes_cache = [value |-> None, expires_at |-> DATETIME_MIN]
    /\ recipe_md_cache = EmptyDict
    /\ photo_cache \in {<<>>, Prefill("Z", PHOTO_CACHE_MAX_ITEMS)}
    /\ md_store = EmptyDict /\ folders = EmptyDict /\ rev = 0
    /\ last = [op |-> "init"]
    /\ stored = NoStored
    /\ touched = <<>>
    /\ dropped = {}
    /\ served = EmptyDict
    /\ thr = [t \in Threads |-> IdleThread]

RaceFrame == UNCHANGED <<now, ticks, nops, DISABLE_AUTH, sessions, issued,
                         recipes_cache, recipe_md_cache, md_store, folders, rev,
                         last, stored, touched, dropped, served>>

\* get_photo is called: main.py:389
RaceGetPhoto(t) ==
    /\ thr[t].pc = "idle"
    /\ \E path \in RacePaths :
         thr' = [thr EXCEPT ![t] = [IdleThread EXCEPT !.pc = "get", !.path = path]]
    /\ UNCHANGED photo_cache
    /\ RaceFrame

\* entry = photo_cache.get(path); if not entry: return None   main.py:159-161
RaceGet(t) ==
    /\ thr[t].pc = "get"
    /\ thr' = [thr EXCEPT ![t] =
                 IF HasKey(photo_cache, thr[t].path)
                 THEN [@ EXCEPT !.pc = "fresh",
                                !.entry = Some(Entry(photo_cache, thr[t].path))]
                 ELSE [@ EXCEPT !.pc = "download"]]
    /\ UNCHANGED photo_cache
    /\ RaceFrame

\* if not cache_fresh(...): photo_cache.pop(path, None); return None   main.py:162-164
RaceFresh(t) ==
    /\ thr[t].pc = "fresh"
    /\ IF cache_fresh(thr[t].entry[1].expires_at, now)
       THEN /\ thr' = [thr EXCEPT ![t].pc = "move"]
            /\ UNCHANGED photo_cache
       ELSE /\ photo_cache' = OdPop(photo_cache, thr[t].path)
            /\ thr' = [thr EXCEPT ![t].pc = "download", ![t].entry = None]
    /\ RaceFrame

\* photo_cache.move_to_end(path); return entry   main.py:165-166
\* move_to_end raises KeyError for a key that is not there
RaceMoveToEnd(t) ==
    /\ thr[t].pc = "move"
    /\ IF HasKey(photo_cache, thr[t].path)
       THEN /\ photo_cache' = OdMoveToEnd(photo_cache, thr[t].path)
            /\ thr' = [thr EXCEPT ![t] = IdleThread]
       ELSE /\ thr' = [thr EXCEPT ![t].pc = "KeyError"]
            /\ UNCHANGED photo_cache
    /\ RaceFrame

\* files_get_metadata and files_download, then photo_cache[path] = {...}
\* main.py:403-412 and 169-174
RaceAssign(t) ==
    /\ thr[t].pc = "download"
    /\ photo_cache' = OdAssign(photo_cache, thr[t].path,
                               [path |-> thr[t].path, content |-> "c1",
                                media_type |-> "image/jpeg", etag |-> Etag(1),
                                expires_at |-> now + PHOTO_CACHE_TTL])
    /\ thr' = [thr EXCEPT ![t].pc = "set_move"]
    /\ RaceFrame

\* photo_cache.move_to_end(path)   main.py:175
RaceSetMoveToEnd(t) ==
    /\ thr[t].pc = "set_move"
    /\ IF HasKey(photo_cache, thr[t].path)
       THEN /\ photo_cache' = OdMoveToEnd(photo_cache, thr[t].path)
            /\ thr' = [thr EXCEPT ![t].pc = "len"]
       ELSE /\ thr' = [thr EXCEPT ![t].pc = "KeyError"]
            /\ UNCHANGED photo_cache
    /\ RaceFrame

\* while len(photo_cache) > PHOTO_CACHE_MAX_ITEMS:   main.py:176
RaceLen(t) ==
    /\ thr[t].pc = "len"
    /\ thr' = [thr EXCEPT ![t] =
                 IF Len(photo_cache) > PHOTO_CACHE_MAX_ITEMS
                 THEN [@ EXCEPT !.pc = "popitem"] ELSE IdleThread]
    /\ UNCHANGED photo_cache
    /\ RaceFrame

\* photo_cache.popitem(last=False)   main.py:177
\* popitem raises KeyError on an empty dictionary
RacePopItem(t) ==
    /\ thr[t].pc = "popitem"
    /\ IF photo_cache # <<>>
       THEN /\ photo_cache' = Tail(photo_cache)
            /\ thr' = [thr EXCEPT ![t].pc = "len"]
       ELSE /\ thr' = [thr EXCEPT ![t].pc = "KeyError"]
            /\ UNCHANGED photo_cache
    /\ RaceFrame

\* clear_photo_cache(None): photo_cache.clear()   main.py:180-182
RaceClearAll(t) ==
    /\ thr[t].pc = "idle"
    /\ photo_cache' = <<>>
    /\ UNCHANGED thr
    /\ RaceFrame

\* clear_photo_cache(recipe): the list comprehension starts to iterate
\* main.py:183-184
RaceClearRecipe(t) ==
    /\ thr[t].pc = "idle"
    /\ \E recipe \in Names :
         thr' = [thr EXCEPT ![t] =
                   [IdleThread EXCEPT !.pc = "iterate", !.recipe = recipe,
                                      !.snap = PhotoKeys(photo_cache)]]
    /\ UNCHANGED photo_cache
    /\ RaceFrame

\* the iteration ends.  The iterator raises RuntimeError when it is asked
\* for a key after the dictionary was mutated; a mutation after it gave its
\* last key goes unnoticed.  The keys kept are those with k.startswith(prefix).
RaceIterate(t) ==
    /\ thr[t].pc = "iterate"
    /\ \E noticed \in BOOLEAN :
         /\ noticed => (thr[t].snap # <<>> /\ PhotoKeys(photo_cache) # thr[t].snap)
         /\ thr' = [thr EXCEPT ![t] =
                IF noticed THEN [@ EXCEPT !.pc = "RuntimeError"]
                ELSE [@ EXCEPT !.pc = "pop",
                        !.keys = SelectSeq(thr[t].snap, LAMBDA k :
                            IsPrefix(recipe_folder(thr[t].recipe) \o <<"/">>, k))]]
    /\ UNCHANGED photo_cache
    /\ RaceFrame

\* for key in [...]: photo_cache.pop(key, None)   main.py:184-185
RacePop(t) ==
    /\ thr[t].pc = "pop"
    /\ IF thr[t].keys = <<>>
       THEN /\ thr' = [thr EXCEPT ![t] = IdleThread]
            /\ UNCHANGED photo_cache
       ELSE /\ photo_cache' = OdPop(photo_cache, Head(thr[t].keys))
            /\ thr' = [thr EXCEPT ![t].keys = Tail(@)]
    /\ RaceFrame

NextRace ==
    \E t \in Threads :
        \/ RaceGetPhoto(t) \/ RaceGet(t) \/ RaceFresh(t) \/ RaceMoveToEnd(t)
        \/ RaceAssign(t) \/ RaceSetMoveToEnd(t) \/ RaceLen(t) \/ RacePopItem(t)
        \/ RaceClearAll(t) \/ RaceClearRecipe(t) \/ RaceIterate(t) \/ RacePop(t)

SpecRace == InitRace /\ [][NextRace]_vars

\* C7: under any interleaving of requests no operation on the content
\* region fails because another request removed or evicted a key in
\* between, and once no insertion is under way the region holds at most
\* 128 entries, no key twice.
C7_SafeUnderInterleaving ==
    /\ \A t \in Threads : thr[t].pc \notin {"KeyError", "RuntimeError"}
    /\ (\A t \in Threads : thr[t].pc \notin {"set_move", "len", "popitem"})
           => Len(photo_cache) <= 128
    /\ \A i, j \in 1..Len(photo_cache) :
           photo_cache[i].path = photo_cache[j].path => i = j

----------------------------------------------------------------------------
(* Spec: the request handlers, main.py:232-418, each run to its end in one *)
(* step, over a remote store that is empty or already holds two recipes.  *)
(* A handler is an operator from the state before the request to the       *)
(* response and the state after it: the store (md_store, folders, rev) and *)
(* the three cache regions.  Every call of the store is listed in calls.   *)
(* A request may suffer one fault: the call named by fault raises          *)
(* dropbox.exceptions.ApiError ("_api") or another exception ("_exc").     *)
(* A missing object raises ApiError by itself.                             *)

Photos == {[filename |-> "p.jpg", content |-> "c2"]}

\* the form fields markdown and tags of a save
SaveForms == {[markdown |-> <<"x">>, tags |-> <<>>],
              [markdown |-> <<TAGS, SP, "a", NL, "y">>, tags |-> <<"B", COMMA, "a">>]}

\* str.strip() of the form field original_name
Strip(str) == IF str = " A" THEN "A" ELSE str
OriginalNames == {"", "A", " A", "AB"}

\* the order in which files_list_folder returns the entries
ListingOrder == <<"A", "AB">>

IsImage(filename) == filename \in {"p.jpg"}

Cur == [md_store |-> md_store, folders |-> folders, rev |-> rev,
        recipes_cache |-> recipes_cache, recipe_md_cache |-> recipe_md_cache,
        photo_cache |-> photo_cache]

\* a response: the state st after the request, the status, the calls made
Resp(st, status, calls, info) ==
    [st |-> st, status |-> status, calls |-> calls, info |-> info]

\* the file of the store at a photo's place, if any
FileAt(fo, recipe, filename) ==
    IF recipe \in DOMAIN fo /\ filename \in DOMAIN fo[recipe]
    THEN Some(fo[recipe][filename]) ELSE None

\* ---- list_recipes, main.py:232-266
RECURSIVE ScanRecipes(_, _, _)
ScanRecipes(entries, ms, fo) ==
    IF entries = <<>> THEN <<>>
    ELSE LET name == Head(entries)
             imgs == IF name \in DOMAIN fo
                     THEN {f \in DOMAIN fo[name] : IsImage(f)} ELSE {}
         IN  <<[name |-> name, tags |-> extract_tags(ms[name]),
                cover |-> IF imgs = {} THEN None
                          ELSE Some(CHOOSE f \in imgs : TRUE)]>>
             \o ScanRecipes(Tail(entries), ms, fo)

list_recipes(st, t, fault) ==
    LET cached == get_cached_recipes(st.recipes_cache, t)
        entries == SelectSeq(ListingOrder, LAMBDA n : n \in DOMAIN st.md_store)
        recipes == ScanRecipes(entries, st.md_store, st.folders)
    IN  IF cached # None THEN Resp(st, 200, <<>>, cached)
        ELSE IF fault = "list_exc" THEN Resp(st, 500, <<"list_folder">>, None)
        ELSE Resp([st EXCEPT !.recipes_cache = set_cached_recipes(recipes, t)],
                  200,
                  <<"list_folder">> \o [i \in 1..(2 * Len(entries)) |->
                                          IF i % 2 = 1 THEN "download" ELSE "list_folder"],
                  Some(recipes))

\* ---- get_recipe, main.py:268-277
get_recipe(st, t, name, fault) ==
    LET g == get_cached_recipe_md(st.recipe_md_cache, name, t)
        st1 == [st EXCEPT !.recipe_md_cache = g.cache]
    IN  IF g.ret # None THEN Resp(st1, 200, <<>>, g.ret)
        ELSE IF fault = "download_exc" \/ name \notin DOMAIN st.md_store
             THEN Resp(st1, 500, <<"download">>, None)
        ELSE Resp([st1 EXCEPT !.recipe_md_cache =
                       set_cached_recipe_md(g.cache, name, st.md_store[name], t)],
                  200, <<"download">>, Some(st.md_store[name]))

\* the regions of st after invalidate_for_recipe_change(name)
Invalidated(st, name) ==
    LET i == invalidate_for_recipe_change(st.recipes_cache, st.photo_cache,
                                          st.recipe_md_cache, name)
    IN  [st EXCEPT !.recipes_cache = i.recipes_cache,
                   !.photo_cache = i.photo_cache,
                   !.recipe_md_cache = i.recipe_md_cache]

\* ---- save_recipe, main.py:279-330
save_recipe(st, t, name, markdown, tags, original_name, photo, fault) ==
    LET old_name == Strip(original_name)
        is_rename == old_name # "" /\ old_name # name
        \* files_move_v2, main.py:293-297
        moved == is_rename /\ fault # "move_api" /\ old_name \in DOMAIN st.folders
                           /\ name \notin DOMAIN st.folders
        fo1 == IF moved
               THEN DictPut(DictDel(st.folders, old_name), name, st.folders[old_name])
               ELSE st.folders
        c1 == IF is_rename THEN <<"move">> ELSE <<>>
        tag_list == normalize_tags(tags)
        final_md == replace_tags(markdown, tag_list)
        \* files_upload of the text, main.py:302-306
        ms2 == DictPut(st.md_store, name, final_md)
        c2 == Append(c1, "upload_md")
        \* files_create_folder_v2, main.py:309-312
        fo3 == IF photo # None /\ fault # "mkdir_exc" /\ name \notin DOMAIN fo1
               THEN DictPut(fo1, name, EmptyDict) ELSE fo1
        c3 == IF photo # None THEN Append(c2, "create_folder") ELSE c2
        \* files_upload of the photo, main.py:314-319
        fo4 == IF photo = None THEN fo3
               ELSE DictPut(fo3, name,
                        DictPut(IF name \in DOMAIN fo3 THEN fo3[name] ELSE EmptyDict,
                                photo[1].filename,
                                [rev |-> st.rev + 1, content |-> photo[1].content]))
        rev4 == IF photo = None THEN st.rev ELSE st.rev + 1
        c4 == IF photo # None THEN Append(c3, "upload_photo") ELSE c3
        \* files_delete_v2 of the old text, main.py:321-325
        deleted == is_rename /\ fault # "delete_api" /\ old_name \in DOMAIN ms2
        ms5 == IF deleted THEN DictDel(ms2, old_name) ELSE ms2
        c5 == IF is_rename THEN Append(c4, "delete_md") ELSE c4
        st5 == [st EXCEPT !.md_store = ms5, !.folders = fo4, !.rev = rev4]
        \* main.py:326-329
        st6 == Invalidated(st5, IF is_rename THEN None ELSE Some(name))
        st7 == [st6 EXCEPT !.recipe_md_cache =
                    set_cached_recipe_md(st6.recipe_md_cache, name, final_md, t)]
        info == [is_rename |-> is_rename, old_name |-> old_name, written |-> final_md,
                 old_photos |-> IF old_name \in DOMAIN st.folders
                                THEN st.folders[old_name] ELSE EmptyDict]
    IN  IF is_rename /\ fault = "move_exc"
        THEN Resp(st, 500, c1, info)
        ELSE IF fault = "upload_md_exc"
        THEN Resp([st EXCEPT !.folders = fo1], 500, c2, info)
        ELSE IF photo # None /\ fault = "upload_photo_exc"
        THEN Resp([st EXCEPT !.folders = fo3, !.md_store = ms2], 500, c4, info)
        ELSE IF is_rename /\ fault = "delete_exc"
        THEN Resp([st EXCEPT !.folders = fo4, !.md_store = ms2, !.rev = rev4],
                  500, c5, info)
        ELSE Resp(st7, 200, c5, info)

\* the faults that can strike a save with these fields
SaveFaults(is_rename, photo) ==
    {"none", "upload_md_exc"}
    \cup (IF is_rename THEN {"move_api", "move_exc", "delete_api", "delete_exc"} ELSE {})
    \cup (IF photo # None THEN {"mkdir_exc", "upload_photo_exc"} ELSE {})

\* a variant that forgets the caches
delete_recipe_keeping_caches(st, name, fault) ==
    IF fault = "delete_exc" \/ name \notin DOMAIN st.md_store
    THEN Resp(st, 500, <<"delete_md">>, None)
    ELSE Resp([st EXCEPT !.md_store = DictDel(@, name),
                         !.folders = IF name \in DOMAIN @ THEN DictDel(@, name) ELSE @],
              200, <<"delete_md", "delete_folder">>, None)

\* ---- delete_recipe, main.py:332-341
delete_recipe(st, name, fault) ==
    IF fault = "delete_exc" \/ name \notin DOMAIN st.md_store
    THEN Resp(st, 500, <<"delete_md">>, None)
    ELSE LET fo == IF fault # "folder_exc" /\ name \in DOMAIN st.folders
                   THEN DictDel(st.folders, name) ELSE st.folders
         IN  Resp(Invalidated([st EXCEPT !.md_store = DictDel(@, name), !.folders = fo],
                              Some(name)),
                  200, <<"delete_md", "delete_folder">>, None)

\* ---- delete_recipe_photo, main.py:343-352
delete_recipe_photo(st, name, filename, fault) ==
    IF fault = "delete_exc" THEN Resp(st, 500, <<"delete_photo">>, None)
    ELSE IF fault = "delete_api" \/ FileAt(st.folders, name, filename) = None
    THEN Resp(st, 404, <<"delete_photo">>, None)
    ELSE Resp(Invalidated([st EXCEPT !.folders[name] = DictDel(@, filename)],
                          Some(name)),
              200, <<"delete_photo">>, None)

\* ---- delete_tag, main.py:358-384: the loop over the entries; the result
\* is the state and whether an upload raised
RECURSIVE RewriteTags(_, _, _, _)
RewriteTags(entries, st, tag, fault) ==
    IF entries = <<>> THEN [st |-> st, raised |-> FALSE]
    ELSE LET name == Head(entries)
             md == st.md_store[name]
             tags == extract_tags(md)
             first == CHOOSE i \in 1..Len(tags) :
                         tags[i] = tag /\ \A j \in 1..(i - 1) : tags[j] # tag
             rest == [i \in 1..(Len(tags) - 1) |->
                         IF i < first THEN tags[i] ELSE tags[i + 1]]
             updated_md == replace_tags(md, rest)
         IN  IF \E i \in 1..Len(tags) : tags[i] = tag
             THEN IF fault = "upload_exc" THEN [st |-> st, raised |-> TRUE]
                  ELSE RewriteTags(Tail(entries),
                           [st EXCEPT !.md_store = DictPut(@, name, updated_md),
                                      !.recipe_md_cache =
                                          clear_recipe_md_cache(@, Some(name))],
                           tag, fault)
             ELSE RewriteTags(Tail(entries), st, tag, fault)

delete_tag(st, tag, fault) ==
    LET entries == SelectSeq(ListingOrder, LAMBDA n : n \in DOMAIN st.md_store)
        w == RewriteTags(entries, st, tag, fault)
    IN  IF fault = "list_exc" THEN Resp(st, 500, <<"list_folder">>, None)
        ELSE IF w.raised THEN Resp(w.st, 500, <<"list_folder", "download", "upload_md">>, None)
        ELSE Resp([w.st EXCEPT !.recipes_cache = clear_recipes_cache], 200,
                  <<"list_folder">> \o [i \in 1..Len(entries) |-> "download"], None)

\* ---- get_photo, main.py:386-418; if_none_match is None or Some(tag)
get_photo(st, t, recipe, filename, if_none_match, fault) ==
    LET path == photo_path(recipe, filename)
        g == get_cached_photo(st.photo_cache, path, t)
        st1 == [st EXCEPT !.photo_cache = g.cache]
        file == FileAt(st.folders, recipe, filename)
        etag == Etag(file[1].rev)
        media_type == GuessType(filename)
    IN  IF g.ret # None
        THEN IF if_none_match # None /\ if_none_match[1] = g.ret[1].etag
             THEN Resp(st1, 304, <<>>, [etag |-> g.ret[1].etag, content |-> None])
             ELSE Resp(st1, 200, <<>>,
                       [etag |-> g.ret[1].etag, content |-> Some(g.ret[1].content)])
        ELSE IF fault = "metadata_exc" \/ file = None
        THEN Resp(st1, 500, <<"get_metadata">>, None)
        ELSE IF if_none_match # None /\ if_none_match[1] = etag
        THEN Resp(st1, 304, <<"get_metadata">>, [etag |-> etag, content |-> None])
        ELSE IF fault = "download_exc"
        THEN Resp(st1, 500, <<"get_metadata", "download">>, None)
        ELSE Resp([st1 EXCEPT !.photo_cache =
                       set_cached_photo(g.cache, path, file[1].content, media_type,
                                        etag, t)],
                  200, <<"get_metadata", "download">>,
                  [etag |-> etag, content |-> Some(file[1].content)])

----------------------------------------------------------------------------
(* The requests.  Every protected handler calls require_auth first          *)
(* (main.py:234, 270, 288, 334, 345, 360, 388), which raises 401.           *)

Cookies == {NoCookie} \cup Tokens

EmptyStore == [md_store |-> EmptyDict, folders |-> EmptyDict, rev |-> 0]
FullStore ==
    [md_store |-> [n \in Names |-> IF n = "A" THEN <<TAGS, SP, "a", NL, NL, "x">>
                                   ELSE <<"y">>],
     folders |-> [n \in {"A"} |-> [f \in {"p.jpg"} |-> [rev |-> 1, content |-> "c1"]]],
     rev |-> 1]

OneStore ==
    [md_store |-> [n \in {"A"} |-> FullStore.md_store[n]],
     folders |-> FullStore.folders,
     rev |-> 1]

Stores == {EmptyStore, OneStore, FullStore}
Regions == {"catalog", "md", "photo"}

\* The state when the requests begin: the server starts with the check of
\* sessions switched off or on, the store is empty or holds one or two recipes, and
\* each region of the cache is as at start or as left by earlier requests
\* served at time 0 (list_recipes, get_recipe("A"), get_photo("A", "p.jpg")),
\* the regions named in warm.  A request suffers a fault of faults, or none.
InitRequests(flags, stores, warms) ==
    /\ now = 0 /\ ticks = 0 /\ nops = 0
    /\ DISABLE_AUTH \in flags
    /\ sessions = EmptyDict /\ issued = {}
    /\ \E store \in stores :
       \E warm \in (IF store # EmptyStore THEN warms ELSE {{}}) :
         /\ md_store = store.md_store /\ folders = store.folders /\ rev = store.rev
         /\ recipes_cache =
              IF "catalog" \in warm
              THEN set_cached_recipes(
                       ScanRecipes(SelectSeq(ListingOrder,
                                             LAMBDA n : n \in DOMAIN store.md_store),
                                   store.md_store, store.folders), 0)
              ELSE [value |-> None, expires_at |-> DATETIME_MIN]
         /\ recipe_md_cache =
              IF "md" \in warm
              THEN set_cached_recipe_md(EmptyDict, "A", store.md_store["A"], 0)
              ELSE EmptyDict
         /\ photo_cache =
              IF "photo" \in warm
              THEN set_cached_photo(<<>>, photo_path("A", "p.jpg"), "c1",
                                    GuessType("p.jpg"), Etag(1), 0)
              ELSE <<>>
         /\ served = IF "photo" \in warm
                     THEN DictPut(EmptyDict, <<"A", "p.jpg">>, Etag(1))
                     ELSE EmptyDict
    /\ last = [op |-> "init"]
    /\ stored = NoStored
    /\ touched = <<>>
    /\ dropped = {}
    /\ thr = EmptyDict

\* the tags a client still holds whose photo the request left as it was
StillServed(fo) ==
    [k \in {x \in DOMAIN served : FileAt(fo, x[1], x[2]) = FileAt(folders, x[1], x[2])}
        |-> served[k]]

\* One request, of at most bound: op with the fields args and the cookie,
\* r the handler's result on the state before the request.
Request(bound, op, cookie, args, r) ==
    LET a == require_auth(DISABLE_AUTH, sessions, cookie, now)
        had == IF cookie \in DOMAIN sessions THEN Some(sessions[cookie]) ELSE None
    IN  /\ nops < bound
        /\ nops' = nops + 1
        /\ sessions' = a.sessions
        /\ IF a.ok
           THEN /\ md_store' = r.st.md_store
                /\ folders' = r.st.folders
                /\ rev' = r.st.rev
                /\ recipes_cache' = r.st.recipes_cache
                /\ recipe_md_cache' = r.st.recipe_md_cache
                /\ photo_cache' = r.st.photo_cache
                /\ served' = IF op = "get_photo" /\ r.status = 200
                             THEN DictPut(StillServed(r.st.folders),
                                          <<args.recipe, args.filename>>, r.info.etag)
                             ELSE StillServed(r.st.folders)
                /\ last' = [op |-> op, status |-> r.status, calls |-> r.calls,
                            info |-> r.info, args |-> args, at |-> now,
                            cookie |-> cookie, had |-> had]
           ELSE /\ UNCHANGED <<md_store, folders, rev, recipes_cache,
                               recipe_md_cache, photo_cache, served>>
                /\ last' = [op |-> op, status |-> 401, calls |-> <<>>,
                            info |-> None, args |-> None, at |-> now,
                            cookie |-> cookie, had |-> had]
        /\ UNCHANGED <<now, ticks, DISABLE_AUTH, issued, stored, touched, dropped, thr>>

ListRecipesBy(bound, cookies, faults) ==
    \E cookie \in cookies, fault \in {"none", "list_exc"} \cap faults :
        Request(bound, "list_recipes", cookie, None, list_recipes(Cur, now, fault))

GetRecipeBy(bound, cookies, faults) ==
    \E cookie \in cookies, name \in Names, fault \in {"none", "download_exc"} \cap faults :
        Request(bound, "get_recipe", cookie, [name |-> name],
                get_recipe(Cur, now, name, fault))

SaveRecipeBy(bound, cookies, faults, photos) ==
    \E cookie \in cookies, name \in Names, form \in SaveForms,
       original_name \in OriginalNames, photo \in photos :
      \E fault \in SaveFaults(Strip(original_name) \notin {"", name}, photo)
                      \cap faults :
        /\ photo # None => rev < MaxRev
        /\ Request(bound, "save_recipe", cookie,
                   [name |-> name, fault |-> fault,
                    existed |-> name \in DOMAIN md_store,
                    had_catalog |-> recipes_cache.value # None,
                    had_md |-> name \in DOMAIN recipe_md_cache],
                   save_recipe(Cur, now, name, form.markdown, form.tags,
                               original_name, photo, fault))

DeleteRecipeBy(bound, cookies, faults) ==
    \E cookie \in cookies, name \in Names,
       fault \in {"none", "delete_exc", "folder_exc"} \cap faults :
        Request(bound, "delete_recipe", cookie,
                [name |-> name, fault |-> fault,
                 had_catalog |-> get_cached_recipes(recipes_cache, now) # None,
                 had_md |-> get_cached_recipe_md(recipe_md_cache, name, now).ret # None,
                 had_photo |-> \E f \in Filenames :
                     get_cached_photo(photo_cache, photo_path(name, f), now).ret # None],
                delete_recipe(Cur, name, fault))

DeleteRecipePhotoBy(bound, cookies, faults) ==
    \E cookie \in cookies, name \in Names, filename \in Filenames,
       fault \in {"none", "delete_api", "delete_exc"} \cap faults :
        Request(bound, "delete_recipe_photo", cookie, [name |-> name, filename |-> filename],
                delete_recipe_photo(Cur, name, filename, fault))

DeleteTagBy(bound, cookies, faults) ==
    \E cookie \in cookies, tag \in {<<"a">>, <<"b">>},
       fault \in {"none", "list_exc", "upload_exc"} \cap faults :
        Request(bound, "delete_tag", cookie, [tag |-> tag, before |-> md_store],
                delete_tag(Cur, tag, fault))

GetPhotoBy(bound, cookies, faults) ==
    \E cookie \in cookies, recipe \in Names, filename \in Filenames,
       if_none_match \in {None} \cup {Some(Etag(r)) : r \in 1..MaxRev},
       fault \in {"none", "metadata_exc", "download_exc"} \cap faults :
        Request(bound, "get_photo", cookie,
                [recipe |-> recipe, filename |-> filename,
                 if_none_match |-> if_none_match, fault |-> fault,
                 prior |-> IF <<recipe, filename>> \in DOMAIN served
                           THEN Some(served[<<recipe, filename>>]) ELSE None],
                get_photo(Cur, now, recipe, filename, if_none_match, fault))

----------------------------------------------------------------------------
(* Spec: the recipes' texts and the catalog, with DISABLE_AUTH set.        *)

AnyFault == {"none", "list_exc", "download_exc", "upload_md_exc", "move_api",
             "move_exc", "delete_api", "delete_exc", "mkdir_exc",
             "upload_photo_exc", "folder_exc", "upload_exc", "metadata_exc"}
NoFault == {"none"}

AnyPhoto == {None} \cup {Some(ph) : ph \in Photos}

Init == InitRequests({TRUE}, Stores, SUBSET Regions)

ListRecipes == ListRecipesBy(MaxOps, {NoCookie}, AnyFault)
GetRecipe == GetRecipeBy(MaxOps, {NoCookie}, AnyFault)
SaveRecipe == SaveRecipeBy(MaxOps, {NoCookie}, AnyFault, AnyPhoto)
\* between requests the clock moves to an expiry time or just past it
Wait == TickTo(MaxWaits, {e + d : e \in Expiries, d \in {0, 1}})

Next ==
    \/ ListRecipes
    \/ GetRecipe
    \/ SaveRecipe
    \/ Wait

Spec == Init /\ [][Next]_vars

\* what a request made now, with no fault, would be answered
WouldGet(name) == get_recipe(Cur, now, name, "none")
WouldList == list_recipes(Cur, now, "none")

\* C1: after a save that reported success (rename or not) the catalog region
\* is absent, the text on the store under the saved name is the text just
\* written, and the cached text of that name is absent or that same text.
C1_SaveLeavesCachesCurrent ==
    (last.op = "save_recipe" /\ last.status = 200) =>
        /\ recipes_cache.value = None
        /\ get_cached_recipes(recipes_cache, now) = None
        /\ last.args.name \in DOMAIN md_store
        /\ md_store[last.args.name] = last.info.written
        /\ \/ last.args.name \notin DOMAIN recipe_md_cache
           \/ recipe_md_cache[last.args.name].markdown = md_store[last.args.name]

\* a save succeeded while the catalog and an older text of the name were cached
C1_Witness ==
    /\ last.op = "save_recipe" /\ last.status = 200
    /\ last.args.had_catalog /\ last.args.had_md
    /\ last.args.name \in DOMAIN recipe_md_cache

\* C2 (as the specification states it): after a rename from A to B that
\* reported success, reading A fails, reading B returns the saved text and
\* the catalog does not list A, whatever the best-effort steps did.
C2_RenameTakesEffect ==
    (last.op = "save_recipe" /\ last.status = 200 /\ last.info.is_rename) =>
        /\ WouldGet(last.info.old_name).status # 200
        /\ WouldGet(last.args.name).status = 200
        /\ WouldGet(last.args.name).info = Some(last.info.written)
        /\ WouldList.status = 200
        /\ \A i \in 1..Len(WouldList.info[1]) :
               WouldList.info[1][i].name # last.info.old_name

\* the entries of the content region that belong to a recipe
PhotoEntriesOf(name) ==
    {i \in 1..Len(photo_cache) :
        \E f \in Filenames : photo_cache[i].path = photo_path(name, f)}

\* C3 (as the specification states it): when a save fails at a remote step
\* after it started, the catalog region is absent and the cached text and
\* cached photos of the name are not older than what the store now holds.
C3_FailedSaveInvalidates ==
    (last.op = "save_recipe" /\ last.status = 500) =>
        /\ recipes_cache.value = None
        /\ last.args.name \in DOMAIN recipe_md_cache =>
               /\ last.args.name \in DOMAIN md_store
               /\ recipe_md_cache[last.args.name].markdown = md_store[last.args.name]
        /\ \A i \in PhotoEntriesOf(last.args.name) :
               \E f \in Filenames :
                   /\ photo_cache[i].path = photo_path(last.args.name, f)
                   /\ FileAt(folders, last.args.name, f) # None
                   /\ photo_cache[i].etag = Etag(FileAt(folders, last.args.name, f)[1].rev)

\* C4 (as the specification states it): a save that renames onto a name that
\* already exists on the store fails with Conflict (409).
C4_RenameOntoExistingConflicts ==
    (last.op = "save_recipe" /\ last.info.is_rename /\ last.args.existed) =>
        last.status = 409

\* C12 (as the specification states it): after a rename from A to B that
\* reported success, the photos A's folder held are in B's folder and A's
\* folder holds none.
C12_RenameKeepsPhotos ==
    (/\ last.op = "save_recipe" /\ last.status = 200
     /\ last.info.is_rename /\ last.info.old_photos # EmptyDict) =>
        /\ last.args.name \in DOMAIN folders
        /\ DOMAIN last.info.old_photos \subseteq DOMAIN folders[last.args.name]
        /\ \/ last.info.old_name \notin DOMAIN folders
           \/ folders[last.info.old_name] = EmptyDict

----------------------------------------------------------------------------
(* SpecAuth: every protected route behind require_auth, main.py:55-60,     *)
(* with DISABLE_AUTH off or on and a cookie that is missing, never issued, *)
(* issued and running, or issued and run out.                              *)

InitAuth == InitRequests(BOOLEAN, {FullStore}, {{}, Regions})

\* one user logs in, once, and is given t1; nobody is ever given t2
AuthLogin == issued = {} /\ LoginWith({"t1"})

AuthListRecipes == ListRecipesBy(MaxAuthOps, Cookies, NoFault)
AuthGetRecipe == GetRecipeBy(MaxAuthOps, Cookies, NoFault)
AuthSaveRecipe == SaveRecipeBy(MaxAuthOps, Cookies, NoFault, {None})
AuthDeleteRecipe == DeleteRecipeBy(MaxAuthOps, Cookies, NoFault)
AuthDeleteRecipePhoto == DeleteRecipePhotoBy(MaxAuthOps, Cookies, NoFault)
AuthDeleteTag == DeleteTagBy(MaxAuthOps, Cookies, NoFault)
AuthGetPhoto == GetPhotoBy(MaxAuthOps, Cookies, NoFault)
AuthWait == TickTo(MaxWaits, {e + d : e \in Expiries, d \in {0, 1}})

NextAuth ==
    \/ AuthLogin
    \/ AuthListRecipes
    \/ AuthGetRecipe
    \/ AuthSaveRecipe
    \/ AuthDeleteRecipe
    \/ AuthDeleteRecipePhoto
    \/ AuthDeleteTag
    \/ AuthGetPhoto
    \/ AuthWait

SpecAuth == InitAuth /\ [][NextAuth]_vars

Protected == {"list_recipes", "get_recipe", "save_recipe", "delete_recipe",
              "delete_recipe_photo", "delete_tag", "get_photo"}

\* the cookie of the last request was missing, never issued or run out
\* (its expiry in the past)
BadToken ==
    \/ last.cookie = NoCookie
    \/ last.had = None
    \/ last.had[1] < last.at

C9_Answer ==
    last.op \in Protected =>
        IF DISABLE_AUTH THEN last.status # 401
        ELSE BadToken => (last.status = 401 /\ last.calls = <<>>)

C9_Step ==
    last'.op \in Protected =>
        /\ last'.status = 401 =>
               UNCHANGED <<recipes_cache, recipe_md_cache, photo_cache,
                           md_store, folders, rev>>
        /\ DISABLE_AUTH => UNCHANGED sessions

\* C9: with DISABLE_AUTH off, a protected request whose token is missing,
\* unknown or expired is answered 401 with no call of the store made and the
\* cache regions and the store as they were; with DISABLE_AUTH on, no request
\* is answered 401 and none touches the session store.
C9_FailsClosed == []C9_Answer /\ [][C9_Step]_vars

\* a request with a token that has run out was refused while the caches were full
C9_Witness ==
    /\ last.op = "save_recipe" /\ last.status = 401
    /\ last.had # None /\ last.had[1] < last.at
    /\ recipes_cache.value # None
    /\ photo_cache # <<>>

----------------------------------------------------------------------------
(* SpecPhoto: get_photo among the requests that write photos,              *)
(* main.py:386-418, with DISABLE_AUTH set.                                 *)

InitPhoto == InitRequests({TRUE}, Stores, SUBSET Regions)

PhotoGet == GetPhotoBy(MaxPhotoOps, {NoCookie}, AnyFault)
PhotoSave == SaveRecipeBy(MaxPhotoOps, {NoCookie}, AnyFault, {Some(ph) : ph \in Photos})
PhotoDelete == DeleteRecipePhotoBy(MaxPhotoOps, {NoCookie}, AnyFault)
PhotoWait == TickTo(MaxWaits, {e + d : e \in Expiries, d \in {0, 1}})

NextPhoto ==
    \/ PhotoGet
    \/ PhotoSave
    \/ PhotoDelete
    \/ PhotoWait

SpecPhoto == InitPhoto /\ [][NextPhoto]_vars

\* C10 (as the specification states it): served holds, for each photo, the
\* tag of the last content answer when no request has written the photo
\* since; a get_photo made now with that tag is answered 304, from the
\* cache or from the metadata of the store.
C10_ConditionalFetch ==
    \A k \in DOMAIN served :
        get_photo(Cur, now, k[1], k[2], Some(served[k]), "none").status = 304

----------------------------------------------------------------------------
(* SpecTag: the requests that rewrite the metadata line of stored texts,   *)
(* delete_tag (main.py:358-384) and save_recipe (main.py:299-306), with    *)
(* DISABLE_AUTH set, over stores whose texts earlier saves have written.   *)

\* texts a save writes: replace_tags leaves them as they are when the form
\* field tags is empty
TagTexts == {<<TAGS, SP, "a">>,
             <<TAGS, SP, "a", SP, "b">>,
             <<TAGS, SP, "b", SP, "a", NL, NL, "x">>,
             <<"y">>}

TagStores ==
    {[md_store |-> [n \in Names |-> IF n = "A" THEN ta ELSE tb],
      folders |-> FullStore.folders,
      rev |-> 1] : ta \in TagTexts, tb \in TagTexts}

InitTag == InitRequests({TRUE}, TagStores, {{}, Regions})

TagDelete == DeleteTagBy(MaxTagOps, {NoCookie}, AnyFault)
TagSave == SaveRecipeBy(MaxTagOps, {NoCookie}, AnyFault, {None})
TagWait == TickTo(MaxWaits, {e + d : e \in Expiries, d \in {0, 1}})

NextTag ==
    \/ TagDelete
    \/ TagSave
    \/ TagWait

SpecTag == InitTag /\ [][NextTag]_vars

\* list.remove(x) of every occurrence: s without the elements equal to x
SeqMinus(s, x) == SelectSeq(s, LAMBDA e : e # x)

\* C11 (as the specification states it): after a delete_tag(t) that reported
\* success no stored text, no answer of get_recipe and no entry of the
\* catalog carries t, and every text keeps its other tags in their order.
C11_TagIsGone ==
    (last.op = "delete_tag" /\ last.status = 200) =>
        /\ \A n \in DOMAIN md_store :
              /\ extract_tags(md_store[n])
                     = SeqMinus(extract_tags(last.args.before[n]), last.args.tag)
              /\ WouldGet(n).status = 200
              /\ extract_tags(WouldGet(n).info[1])
                     = SeqMinus(extract_tags(last.args.before[n]), last.args.tag)
        /\ WouldList.status = 200
        /\ \A i \in 1..Len(WouldList.info[1]) :
               \A j \in 1..Len(WouldList.info[1][i].tags) :
                   WouldList.info[1][i].tags[j] # last.args.tag

\* the places of a text where a line begins with "Tags:"
MetadataLines(md) == {i \in 1..Len(md) : md[i] = TAGS /\ LineStart(md, i)}

\* at most one metadata line, and it begins the first non-blank line
WellFormedText(md) ==
    /\ Cardinality(MetadataLines(md)) <= 1
    /\ \A i \in MetadataLines(md) : i = FirstNonSpace(md, 1)

\* C14 (as the specification states it): every text on the store after a
\* save or a delete_tag has at most one metadata line, and that line is its
\* first non-blank line.
C14_OneMetadataLine ==
    (last.op \in {"save_recipe", "delete_tag"}) =>
        \A n \in DOMAIN md_store : WellFormedText(md_store[n])

----------------------------------------------------------------------------
(* SpecCodec: the tag functions on their own, main.py:84-102.  The text of *)
(* /recipes/A.md is any text of at most MaxTextLen atoms; a step rewrites  *)
(* its metadata line as save_recipe and delete_tag do, or normalizes a     *)
(* form field.                                                             *)

CodecAtoms == {TAGS, NL, SP, "a", "b"}
CodecTexts == UNION {[1..n -> CodecAtoms] : n \in 0..MaxTextLen}

\* the normalized tag sequences over two tags
NormalTags == {<<>>, <<<<"a">>>>, <<<<"b">>>>, <<<<"a">>, <<"b">>>>, <<<<"b">>, <<"a">>>>}

\* values of the form field tags
TagFields == {<<>>, <<"B", COMMA, "a">>, <<"a", SP, SP, "a">>, <<COMMA, NL>>}

InitCodec ==
    /\ now = 0 /\ ticks = 0 /\ nops = 0
    /\ DISABLE_AUTH = FALSE
    /\ sessions = EmptyDict /\ issued = {}
    /\ recipes_cache = [value |-> None, expires_at |-> DATETIME_MIN]
    /\ recipe_md_cache = EmptyDict
    /\ photo_cache = <<>>
    /\ md_store \in {[n \in {"A"} |-> text] : text \in CodecTexts}
    /\ folders = EmptyDict /\ rev = 0
    /\ last = [op |-> "init"]
    /\ stored = NoStored /\ touched = <<>> /\ dropped = {}
    /\ served = EmptyDict /\ thr = EmptyDict

CodecFrame ==
    UNCHANGED <<now, ticks, DISABLE_AUTH, sessions, issued, recipes_cache,
                recipe_md_cache, photo_cache, folders, rev, stored, touched,
                dropped, served, thr>>

ReplaceTags ==
    /\ nops < MaxCodecOps
    /\ \E new_tags \in NormalTags :
         LET out == replace_tags(md_store["A"], new_tags)
         IN  /\ md_store' = [md_store EXCEPT !["A"] = out]
             /\ last' = [op |-> "replace_tags", markdown |-> md_store["A"],
                         new_tags |-> new_tags, ret |-> out]
    /\ nops' = nops + 1
    /\ CodecFrame

NormalizeTags ==
    /\ nops < MaxCodecOps
    /\ \E tag_string \in TagFields :
         last' = [op |-> "normalize_tags", tag_string |-> tag_string,
                  ret |-> normalize_tags(tag_string)]
    /\ nops' = nops + 1
    /\ UNCHANGED md_store
    /\ CodecFrame

NextCodec == ReplaceTags \/ NormalizeTags

SpecCodec == InitCodec /\ [][NextCodec]_vars

\* C13 (as the specification states it): for every text and every
\* normalized tag sequence T, empty or not, extract_tags of
\* replace_tags(text, T) is T.
C13_RoundTrip ==
    last.op = "replace_tags" => extract_tags(last.ret) = last.new_tags

----------------------------------------------------------------------------
(* SpecInval: invalidate_for_recipe_change on its own, main.py:179-190,    *)
(* from any filling of the three regions that requests at time 0 leave.   *)

InvalFiles == {"p.jpg", "q.png"}
InvalPaths == {photo_path("A", "p.jpg"), photo_path("A", "q.png"),
               photo_path("AB", "p.jpg")}

\* the content region after get_photo has cached the paths of seq in turn
RECURSIVE Filled(_)
Filled(seq) ==
    IF seq = <<>> THEN <<>>
    ELSE set_cached_photo(Filled(SubSeq(seq, 1, Len(seq) - 1)), seq[Len(seq)],
                          "c1", "image/jpeg", Etag(1), 0)

\* the sequences of distinct paths
PathOrders ==
    {seq \in UNION {[1..n -> InvalPaths] : n \in 0..Cardinality(InvalPaths)} :
        \A i, j \in 1..Len(seq) : i # j => seq[i] # seq[j]}

InitInval ==
    /\ now = 0 /\ ticks = 0 /\ nops = 0
    /\ DISABLE_AUTH = FALSE
    /\ sessions = EmptyDict /\ issued = {}
    /\ recipes_cache \in {clear_recipes_cache} \cup
                         {set_cached_recipes(c, 0) : c \in CacheCatalogs}
    /\ \E cached \in SUBSET Names :
         recipe_md_cache = [n \in cached |->
                               [markdown |-> <<n>>,
                                expires_at |-> RECIPE_MD_CACHE_TTL]]
    /\ \E seq \in PathOrders : photo_cache = Filled(seq)
    /\ md_store = EmptyDict /\ folders = EmptyDict /\ rev = 0
    /\ last = [op |-> "init"]
    /\ stored = NoStored /\ touched = <<>> /\ dropped = {}
    /\ served = EmptyDict /\ thr = EmptyDict

Invalidate ==
    /\ nops < MaxInvalOps
    /\ \E name \in {None} \cup {Some(n) : n \in Names} :
         LET i == invalidate_for_recipe_change(recipes_cache, photo_cache,
                                               recipe_md_cache, name)
         IN  /\ recipes_cache' = i.recipes_cache
             /\ photo_cache' = i.photo_cache
             /\ recipe_md_cache' = i.recipe_md_cache
             /\ last' = [op |-> "invalidate_for_recipe_change", name |-> name,
                         before |-> [photo_cache |-> photo_cache,
                                     recipe_md_cache |-> recipe_md_cache]]
    /\ nops' = nops + 1
    /\ UNCHANGED <<now, ticks, DISABLE_AUTH, sessions, issued, md_store, folders,
                   rev, stored, touched, dropped, served, thr>>

NextInval == Invalidate

SpecInval == InitInval /\ [][NextInval]_vars

\* the paths of the photos of recipe n
PathsOf(n) == {photo_path(n, f) : f \in InvalFiles}

\* C15: invalidation for one recipe N empties the catalog region, drops N's
\* text entry and the content entries of N's photos, and leaves the text
\* entries and content entries of every other recipe (also of one whose
\* name begins with N) as they were, in their order; invalidation for all
\* recipes empties the three regions.
C15_InvalidationScope ==
    last.op = "invalidate_for_recipe_change" =>
        /\ recipes_cache.value = None
        /\ IF last.name = None
           THEN recipe_md_cache = EmptyDict /\ photo_cache = <<>>
           ELSE /\ DOMAIN recipe_md_cache
                       = DOMAIN last.before.recipe_md_cache \ {last.name[1]}
                /\ \A n \in DOMAIN recipe_md_cache :
                       recipe_md_cache[n] = last.before.recipe_md_cache[n]
                /\ photo_cache = SelectSeq(last.before.photo_cache,
                                     LAMBDA e : e.path \notin PathsOf(last.name[1]))

\* recipe A was invalidated while A and AB had texts and photos cached
C15_Witness ==
    /\ last.op = "invalidate_for_recipe_change" /\ last.name = Some("A")
    /\ DOMAIN last.before.recipe_md_cache = {"A", "AB"}
    /\ Len(last.before.photo_cache) = 3
    /\ Len(photo_cache) = 1 /\ DOMAIN recipe_md_cache = {"AB"}

----------------------------------------------------------------------------
(* SpecDelete: the requests that delete, main.py:332-352, with             *)
(* DISABLE_AUTH set.                                                       *)

InitDelete == InitRequests({TRUE}, Stores, SUBSET Regions)

DeleteRecipe == DeleteRecipeBy(MaxDeleteOps, {NoCookie}, AnyFault)
DeleteRecipePhoto == DeleteRecipePhotoBy(MaxDeleteOps, {NoCookie}, AnyFault)
DeleteWait == TickTo(MaxWaits, {e + d : e \in Expiries, d \in {0, 1}})

NextDelete ==
    \/ DeleteRecipe
    \/ DeleteRecipePhoto
    \/ DeleteWait

SpecDelete == InitDelete /\ [][NextDelete]_vars

----------------------------------------------------------------------------
(* SpecSteps: one save_recipe, one get_recipe and one list_recipes running *)
(* at the same time, statement by statement.  save_recipe is a coroutine   *)
(* on the event loop (main.py:279), get_recipe and list_recipes run on     *)
(* threads of the pool (main.py:233, 269), so the steps of the three       *)
(* interleave freely; there is no lock in main.py.  thr holds, per         *)
(* request, the position pc and the local variables.                       *)

Requests == {"save", "get", "list"}
IdleTask == [pc |-> "idle"]
Task(k) == IF k \in DOMAIN thr THEN thr[k] ELSE IdleTask

InitSteps == InitRequests({TRUE}, {OneStore, FullStore}, {{}, Regions})

StepFrame == UNCHANGED <<now, ticks, nops, DISABLE_AUTH, sessions, issued,
                         last, stored, touched, dropped, served>>
StoreFrame == UNCHANGED <<md_store, folders, rev>>
CacheRegions == <<recipes_cache, recipe_md_cache, photo_cache>>

\* the statement that follows pc in save_recipe when pc raised nothing,
\* main.py:292-330
SaveDeleteFirst(pc, is_rename, has_photo) ==
    CASE pc = "start" -> IF is_rename THEN "move" ELSE "upload_md"
      [] pc = "move" -> "delete_old"
      [] pc = "delete_old" -> "upload_md"
      [] pc = "upload_md" -> IF has_photo THEN "create_folder" ELSE "invalidate"
      [] pc = "create_folder" -> "read"
      [] pc = "read" -> "upload_photo"
      [] pc = "upload_photo" -> "invalidate"
      [] pc = "invalidate" -> "prewarm"
      [] OTHER -> "done"

SaveAfter(pc, is_rename, has_photo) ==
    CASE pc = "start" -> IF is_rename THEN "move" ELSE "upload_md"
      [] pc = "move" -> "upload_md"
      [] pc = "upload_md" -> IF has_photo THEN "create_folder"
                             ELSE IF is_rename THEN "delete_old" ELSE "invalidate"
      [] pc = "create_folder" -> "read"
      [] pc = "read" -> "upload_photo"
      [] pc = "upload_photo" -> IF is_rename THEN "delete_old" ELSE "invalidate"
      [] pc = "delete_old" -> "invalidate"
      [] pc = "invalidate" -> "prewarm"
      [] OTHER -> "done"

\* the save moves on from its statement pc, or the statement raised
SaveGoes(raised) ==
    thr' = DictPut(thr, "save",
               IF raised THEN [Task("save") EXCEPT !.pc = "failed", !.at = Task("save").pc]
               ELSE [Task("save") EXCEPT
                        !.pc = SaveAfter(@, Task("save").is_rename,
                                         Task("save").photo # None)])

\* main.py:288-291 and 299-300: the form is read
SaveStart ==
    /\ Task("save").pc = "idle"
    /\ \E name \in Names, form \in SaveForms, original_name \in OriginalNames,
          photo \in AnyPhoto :
         LET old_name == Strip(original_name)
             is_rename == old_name # "" /\ old_name # name
         IN  thr' = DictPut(thr, "save",
                      [pc |-> SaveAfter("start", is_rename, photo # None),
                       at |-> "", name |-> name, old_name |-> old_name,
                       is_rename |-> is_rename, photo |-> photo,
                       final_md |-> replace_tags(form.markdown,
                                                 normalize_tags(form.tags)),
                       old_text |-> IF is_rename /\ old_name \in DOMAIN md_store
                                    THEN Some(md_store[old_name]) ELSE None])
    /\ UNCHANGED <<md_store, folders, rev, recipes_cache, recipe_md_cache, photo_cache>>
    /\ StepFrame

\* main.py:293-297: files_move_v2; an ApiError is passed over
SaveMove ==
    /\ Task("save").pc = "move"
    /\ \E outcome \in {"ok", "api", "exc"} :
         LET t == Task("save")
             can == t.old_name \in DOMAIN folders /\ t.name \notin DOMAIN folders
         IN  /\ folders' = IF outcome = "ok" /\ can
                           THEN DictPut(DictDel(folders, t.old_name), t.name,
                                        folders[t.old_name])
                           ELSE folders
             /\ SaveGoes(outcome = "exc")
    /\ UNCHANGED <<md_store, rev, recipes_cache, recipe_md_cache, photo_cache>>
    /\ StepFrame

\* main.py:302-306: files_upload of the text
SaveUploadMd ==
    /\ Task("save").pc = "upload_md"
    /\ \E raised \in BOOLEAN :
         /\ md_store' = IF raised THEN md_store
                        ELSE DictPut(md_store, Task("save").name, Task("save").final_md)
         /\ SaveGoes(raised)
    /\ UNCHANGED <<folders, rev, recipes_cache, recipe_md_cache, photo_cache>>
    /\ StepFrame

\* main.py:309-312: files_create_folder_v2; every exception is passed over
SaveCreateFolder ==
    /\ Task("save").pc = "create_folder"
    /\ \E raised \in BOOLEAN :
         folders' = IF raised \/ Task("save").name \in DOMAIN folders THEN folders
                    ELSE DictPut(folders, Task("save").name, EmptyDict)
    /\ SaveGoes(FALSE)
    /\ UNCHANGED <<md_store, rev, recipes_cache, recipe_md_cache, photo_cache>>
    /\ StepFrame

\* main.py:314: await photo.read(), where the coroutine is suspended
SaveRead ==
    /\ Task("save").pc = "read"
    /\ SaveGoes(FALSE)
    /\ UNCHANGED <<md_store, folders, rev, recipes_cache, recipe_md_cache, photo_cache>>
    /\ StepFrame

\* main.py:315-319: files_upload of the photo
SaveUploadPhoto ==
    /\ Task("save").pc = "upload_photo"
    /\ rev < MaxRev
    /\ \E raised \in BOOLEAN :
         LET t == Task("save")
         IN  /\ folders' = IF raised THEN folders
                  ELSE DictPut(folders, t.name,
                           DictPut(IF t.name \in DOMAIN folders THEN folders[t.name]
                                   ELSE EmptyDict,
                                   t.photo[1].filename,
                                   [rev |-> rev + 1, content |-> t.photo[1].content]))
             /\ rev' = IF raised THEN rev ELSE rev + 1
             /\ SaveGoes(raised)
    /\ UNCHANGED <<md_store, recipes_cache, recipe_md_cache, photo_cache>>
    /\ StepFrame

\* main.py:321-325: files_delete_v2 of the old text; an ApiError is passed over
SaveDeleteOld ==
    /\ Task("save").pc = "delete_old"
    /\ \E outcome \in {"ok", "api", "exc"} :
         /\ md_store' = IF outcome = "ok" /\ Task("save").old_name \in DOMAIN md_store
                        THEN DictDel(md_store, Task("save").old_name) ELSE md_store
         /\ SaveGoes(outcome = "exc")
    /\ UNCHANGED <<folders, rev, recipes_cache, recipe_md_cache, photo_cache>>
    /\ StepFrame

\* main.py:326-328: invalidate_for_recipe_change
SaveInvalidate ==
    /\ Task("save").pc = "invalidate"
    /\ LET i == invalidate_for_recipe_change(recipes_cache, photo_cache,
                    recipe_md_cache,
                    IF Task("save").is_rename THEN None ELSE Some(Task("save").name))
       IN  /\ recipes_cache' = i.recipes_cache
           /\ photo_cache' = i.photo_cache
           /\ recipe_md_cache' = i.recipe_md_cache
    /\ SaveGoes(FALSE)
    /\ StoreFrame /\ StepFrame

\* main.py:329-330: set_cached_recipe_md(name, final_md)
SavePrewarm ==
    /\ Task("save").pc = "prewarm"
    /\ recipe_md_cache' = set_cached_recipe_md(recipe_md_cache, Task("save").name,
                                               Task("save").final_md, now)
    /\ SaveGoes(FALSE)
    /\ UNCHANGED <<recipes_cache, photo_cache>>
    /\ StoreFrame /\ StepFrame

\* main.py:270-273: get_recipe looks in the cache
GetLookup ==
    /\ Task("get").pc = "idle"
    /\ \E name \in Names :
         LET g == get_cached_recipe_md(recipe_md_cache, name, now)
         IN  /\ recipe_md_cache' = g.cache
             /\ thr' = DictPut(thr, "get",
                          [pc |-> IF g.ret # None THEN "done" ELSE "download",
                           name |-> name, markdown |-> g.ret])
    /\ UNCHANGED <<recipes_cache, photo_cache>>
    /\ StoreFrame /\ StepFrame

\* main.py:274-275: files_download; a missing text raises
GetDownload ==
    /\ Task("get").pc = "download"
    /\ \E raised \in BOOLEAN :
         thr' = DictPut(thr, "get",
                   IF raised \/ Task("get").name \notin DOMAIN md_store
                   THEN [Task("get") EXCEPT !.pc = "failed"]
                   ELSE [Task("get") EXCEPT !.pc = "set",
                             !.markdown = Some(md_store[Task("get").name])])
    /\ UNCHANGED <<recipes_cache, recipe_md_cache, photo_cache>>
    /\ StoreFrame /\ StepFrame

\* main.py:276-277: set_cached_recipe_md(name, markdown)
GetSet ==
    /\ Task("get").pc = "set"
    /\ recipe_md_cache' = set_cached_recipe_md(recipe_md_cache, Task("get").name,
                                               Task("get").markdown[1], now)
    /\ thr' = DictPut(thr, "get", [Task("get") EXCEPT !.pc = "done"])
    /\ UNCHANGED <<recipes_cache, photo_cache>>
    /\ StoreFrame /\ StepFrame

\* main.py:236-238: list_recipes looks in the cache
ListLookup ==
    /\ Task("list").pc = "idle"
    /\ thr' = DictPut(thr, "list",
                 [pc |-> IF get_cached_recipes(recipes_cache, now) # None
                         THEN "done" ELSE "scan",
                  recipes |-> get_cached_recipes(recipes_cache, now)])
    /\ UNCHANGED <<recipes_cache, recipe_md_cache, photo_cache>>
    /\ StoreFrame /\ StepFrame

\* main.py:240-263: the store is listed and read
ListScan ==
    /\ Task("list").pc = "scan"
    /\ \E raised \in BOOLEAN :
         thr' = DictPut(thr, "list",
                   IF raised THEN [Task("list") EXCEPT !.pc = "failed"]
                   ELSE [Task("list") EXCEPT !.pc = "set",
                             !.recipes = Some(ScanRecipes(
                                 SelectSeq(ListingOrder,
                                           LAMBDA n : n \in DOMAIN md_store),
                                 md_store, folders))])
    /\ UNCHANGED <<recipes_cache, recipe_md_cache, photo_cache>>
    /\ StoreFrame /\ StepFrame

\* main.py:265-266: set_cached_recipes(recipes)
ListSet ==
    /\ Task("list").pc = "set"
    /\ recipes_cache' = set_cached_recipes(Task("list").recipes[1], now)
    /\ thr' = DictPut(thr, "list", [Task("list") EXCEPT !.pc = "done"])
    /\ UNCHANGED <<recipe_md_cache, photo_cache>>
    /\ StoreFrame /\ StepFrame

NextSteps ==
    \/ SaveStart
    \/ SaveMove
    \/ SaveUploadMd
    \/ SaveCreateFolder
    \/ SaveRead
    \/ SaveUploadPhoto
    \/ SaveDeleteOld
    \/ SaveInvalidate
    \/ SavePrewarm
    \/ GetLookup
    \/ GetDownload
    \/ GetSet
    \/ ListLookup
    \/ ListScan
    \/ ListSet

SpecSteps == InitSteps /\ [][NextSteps]_vars

\* the save is a rename of a recipe whose text was on the store
Renaming == Task("save").pc # "idle" /\ Task("save").old_text # None

C16_OneExists ==
    Renaming =>
        /\ \/ Task("save").old_name \in DOMAIN md_store
           \/ Task("save").name \in DOMAIN md_store
        /\ (Task("save").pc = "failed" /\ Task("save").at \in {"move", "upload_md"}) =>
               /\ Task("save").old_name \in DOMAIN md_store
               /\ md_store[Task("save").old_name] = Task("save").old_text[1]

C16_Step ==
    Renaming =>
        \* the old text goes only when the new text is there
        /\ (Task("save").old_name \in DOMAIN md_store
            /\ Task("save").old_name \notin DOMAIN md_store') =>
               /\ Task("save").name \in DOMAIN md_store
               /\ md_store[Task("save").name] = Task("save").final_md
        \* a save that fails at the write has reset no cache
        /\ (Task("save").pc \in {"move", "upload_md"} /\ Task("save")' # Task("save")) =>
               UNCHANGED <<md_store, recipes_cache, recipe_md_cache, photo_cache>>
               \/ Task("save")'.pc # "failed"
        /\ (Task("save").pc \notin {"invalidate", "prewarm"}
            /\ Task("save")' # Task("save")) =>
               UNCHANGED <<recipes_cache, recipe_md_cache, photo_cache>>

\* C16: in a rename from A to B the text of A is deleted only after the text
\* of B has been written: at every point of the rename one of the two texts
\* is on the store, and when the write of B (or a statement before it) fails
\* the text of A is as it was and the save has not touched the caches.
C16_WriteBeforeDelete == []C16_OneExists /\ [][C16_Step]_vars

\* a rename of a stored recipe has deleted the old text, and another has
\* failed at the write
C16_Witness ==
    /\ Renaming
    /\ Task("save").pc = "invalidate"
    /\ Task("save").old_name \notin DOMAIN md_store

Finished == \A k \in Requests : Task(k).pc \in {"idle", "done"}

\* C19 (implicit): when a save_recipe and a get_recipe running at the same
\* time have both finished, a fresh cached text of a name is the text the
\* store holds for it.
C19_CachedTextIsCurrent ==
    (Finished /\ Task("list").pc = "idle") =>
        \A n \in DOMAIN recipe_md_cache :
            cache_fresh(recipe_md_cache[n].expires_at, now) =>
                /\ n \in DOMAIN md_store
                /\ recipe_md_cache[n].markdown = md_store[n]

\* C20 (implicit): when a list_recipes and a mutation running at the same
\* time have both finished, a fresh cached catalog is what a new scan of the
\* store gives.
C20_CatalogIsCurrent ==
    (Finished /\ Task("get").pc = "idle") =>
        (get_cached_recipes(recipes_cache, now) # None =>
            get_cached_recipes(recipes_cache, now)
                = Some(ScanRecipes(SelectSeq(ListingOrder,
                                             LAMBDA n : n \in DOMAIN md_store),
                                   md_store, folders)))

====
